---- MODULE Spec2Model ----
(***************************************************************************)
(* Model of deploy.py: the EC2Deployer orchestrator.  One sequential       *)
(* process drives the cloud provider (IAM, S3, EC2, SSM, STS) through      *)
(* identity, bucket, security-group, launch, readiness, reachability,      *)
(* log harvest / stop and read-access verification.  The provider's state  *)
(* (cloud) outlives a run; a rerun starts a fresh process on the same      *)
(* cloud.  Provider answers (success, benign "already exists" signals,     *)
(* other errors) are inputs of each step.                                  *)
(***************************************************************************)
EXTENDS Integers, Sequences, FiniteSets, TLC

VARIABLES
    pc,             \* position of the process inside main()/deploy()
    run,            \* number of the current process run (1..MaxRuns)
    stage,          \* self.stage
    config,         \* self.config, a mapping key -> value
    caller,         \* the identity sts:GetCallerIdentity answers with
    instance_id,    \* self.instance_id (None = 0)
    bucket_name,    \* self.bucket_name
    profile_name,   \* deploy(): instance_profile_name
    read_role,      \* deploy(): read_role_name
    public_ip,      \* deploy(): public_ip
    sg_desc,        \* create_security_group(): response['SecurityGroups']
    sg_id,          \* launch_instance(): sg_id
    reachable,      \* value returned by test_reachability
    exitCode,       \* exit status of the process (-1 while it runs)
    trace,          \* provider calls, sleeps and probes of the current run
    cloud,          \* the provider's account state
    runs            \* what is kept of the earlier runs

vars == <<pc, run, stage, config, caller, instance_id, bucket_name,
          profile_name, read_role, public_ip, sg_desc, sg_id, reachable,
          exitCode, trace, cloud, runs>>

None == "None"

\* Number of process runs against the same account.
MaxRuns == 2

----------------------------------------------------------------------------
(* Inputs *)

\* --stage values; the constructor lower-cases them.
StageArgs == {"dev", "Dev"}

lower(s) == IF s = "Dev" THEN "dev" ELSE s

\* load_config: the built-in defaults used when <stage>_config.json is absent
DefaultConfig ==
    [instance_type |-> "t2.micro", ami_id |-> "ami-0f5ee92e2d63afc18",
     github_repo |-> "https://github.com/techeazy-consulting/techeazy-devops",
     stop_after_minutes |-> "60"]

\* contents a <stage>_config.json may have
FileConfigs ==
    { [instance_type |-> "t2.micro", ami_id |-> "ami-1", github_repo |-> "repo",
       stop_after_minutes |-> "1", bucket_name |-> "logs-bucket", aws_key |-> "key-1"],
      [instance_type |-> "t2.micro", ami_id |-> "ami-1", github_repo |-> "repo",
       stop_after_minutes |-> "1"] }

\* the file system: the set of <stage>_config.json files, empty or one file
ConfigFiles == {{}} \cup {{c} : c \in FileConfigs}

\* load_config: the file's content, the defaults on FileNotFoundError
load_config(files) == IF files = {} THEN DefaultConfig ELSE CHOOSE c \in files : TRUE

Callers == {"arn:user/alice"}

----------------------------------------------------------------------------
(* Resource names *)

\* f"<prefix>-{self.stage}" for the stages of the model
Named(prefix, st) ==
    CASE prefix = "S3ReadOnlyRole" ->
           (CASE st = "dev" -> "S3ReadOnlyRole-dev" [] st = "prod" -> "S3ReadOnlyRole-prod"
              [] OTHER -> "S3ReadOnlyRole-Dev")
      [] prefix = "S3UploadOnlyRole" ->
           (CASE st = "dev" -> "S3UploadOnlyRole-dev" [] st = "prod" -> "S3UploadOnlyRole-prod"
              [] OTHER -> "S3UploadOnlyRole-Dev")
      [] prefix = "EC2-S3-Upload-Profile" ->
           (CASE st = "dev" -> "EC2-S3-Upload-Profile-dev"
              [] st = "prod" -> "EC2-S3-Upload-Profile-prod"
              [] OTHER -> "EC2-S3-Upload-Profile-Dev")
      [] prefix = "techeazy-sg" ->
           (CASE st = "dev" -> "techeazy-sg-dev" [] st = "prod" -> "techeazy-sg-prod"
              [] OTHER -> "techeazy-sg-Dev")

\* sg_name with the number of the run in it: a fresh group name from the
\* second run on
sg_name_per_run(st) ==
    IF run > 1 THEN "techeazy-sg-prod" ELSE Named("techeazy-sg", st)

read_role_name(st)   == Named("S3ReadOnlyRole", st)
upload_role_name(st) == Named("S3UploadOnlyRole", st)
profile_name_of(st)  == Named("EC2-S3-Upload-Profile", st)
sg_name(st)          == Named("techeazy-sg", st)

SSMPolicyArn == "arn:aws:iam::aws:policy/AmazonSSMManagedInstanceCore"
Ec2Service   == "ec2.amazonaws.com"

ec2_only_trust_policy      == {Ec2Service}
read_role_trust_policy(u)  == {Ec2Service, u}
read_policy(b)   == {<<"s3:GetObject", b>>, <<"s3:ListBucket", b>>}
upload_policy(b) == {<<"s3:PutObject", b>>, <<"s3:CreateBucket", "*">>}

----------------------------------------------------------------------------
(* Trace entries *)

Ev(op, res) == [op |-> op, res |-> res]

Ops(tr) == {tr[i].op : i \in 1..Len(tr)}

\* @@ on functions, for a finite-domain update that may add a key
Put(f, k, v) == [x \in DOMAIN f \cup {k} |-> IF x = k THEN v ELSE f[x]]

EmptyMap == [x \in {} |-> None]

----------------------------------------------------------------------------
(* create_iam_roles *)

\* The provider calls of the try block, in program order.
IamCalls == <<"create_role:read", "put_role_policy:read", "create_role:upload",
              "attach_role_policy", "put_role_policy:upload",
              "create_instance_profile", "add_role_to_instance_profile">>

NewRole(trust) == [trust |-> trust, inline |-> EmptyMap, managed |-> {}]

\* The provider calls with the trust policy of an existing read role
\* rewritten for the present caller.
IamCall_update_trust(cl, op, st, cfg, user) ==
    LET rd == read_role_name(st)
        up == upload_role_name(st)
        pf == profile_name_of(st)
    IN CASE op = "create_role:read" ->
              IF rd \in DOMAIN cl.roles
              THEN [cloud |-> [cl EXCEPT !.roles[rd].trust = read_role_trust_policy(user)],
                    res |-> "EntityAlreadyExists"]
              ELSE [cloud |-> [cl EXCEPT !.roles =
                                 Put(@, rd, NewRole(read_role_trust_policy(user)))],
                    res |-> "ok"]
         [] op = "put_role_policy:read" ->
              [cloud |-> [cl EXCEPT !.roles[rd].inline =
                            Put(@, "S3ReadOnlyPolicy", read_policy(cfg.bucket_name))],
               res |-> "ok"]
         [] op = "create_role:upload" ->
              IF up \in DOMAIN cl.roles
              THEN [cloud |-> cl, res |-> "EntityAlreadyExists"]
              ELSE [cloud |-> [cl EXCEPT !.roles =
                                 Put(@, up, NewRole(ec2_only_trust_policy))],
                    res |-> "ok"]
         [] op = "attach_role_policy" ->
              [cloud |-> [cl EXCEPT !.roles[up].managed = @ \cup {SSMPolicyArn}],
               res |-> "ok"]
         [] op = "put_role_policy:upload" ->
              [cloud |-> [cl EXCEPT !.roles[up].inline =
                            Put(@, "S3UploadOnlyPolicy", upload_policy(cfg.bucket_name))],
               res |-> "ok"]
         [] op = "create_instance_profile" ->
              IF pf \in DOMAIN cl.profiles
              THEN [cloud |-> cl, res |-> "EntityAlreadyExists"]
              ELSE [cloud |-> [cl EXCEPT !.profiles = Put(@, pf, {})], res |-> "ok"]
         [] op = "add_role_to_instance_profile" ->
              IF cl.profiles[pf] # {}
              THEN [cloud |-> cl, res |-> "LimitExceeded"]
              ELSE [cloud |-> [cl EXCEPT !.profiles[pf] = {up}], res |-> "ok"]

\* One provider call of the try block answered without a provider fault:
\* the account after it and the answer the program sees.
IamCall(cl, op, st, cfg, user) ==
    LET rd == read_role_name(st)
        up == upload_role_name(st)
        pf == profile_name_of(st)
    IN CASE op = "create_role:read" ->
              IF rd \in DOMAIN cl.roles
              THEN [cloud |-> cl, res |-> "EntityAlreadyExists"]
              ELSE [cloud |-> [cl EXCEPT !.roles =
                                 Put(@, rd, NewRole(read_role_trust_policy(user)))],
                    res |-> "ok"]
         [] op = "put_role_policy:read" ->
              [cloud |-> [cl EXCEPT !.roles[rd].inline =
                            Put(@, "S3ReadOnlyPolicy", read_policy(cfg.bucket_name))],
               res |-> "ok"]
         [] op = "create_role:upload" ->
              IF up \in DOMAIN cl.roles
              THEN [cloud |-> cl, res |-> "EntityAlreadyExists"]
              ELSE [cloud |-> [cl EXCEPT !.roles =
                                 Put(@, up, NewRole(ec2_only_trust_policy))],
                    res |-> "ok"]
         [] op = "attach_role_policy" ->
              [cloud |-> [cl EXCEPT !.roles[up].managed = @ \cup {SSMPolicyArn}],
               res |-> "ok"]
         [] op = "put_role_policy:upload" ->
              [cloud |-> [cl EXCEPT !.roles[up].inline =
                            Put(@, "S3UploadOnlyPolicy", upload_policy(cfg.bucket_name))],
               res |-> "ok"]
         [] op = "create_instance_profile" ->
              IF pf \in DOMAIN cl.profiles
              THEN [cloud |-> cl, res |-> "EntityAlreadyExists"]
              ELSE [cloud |-> [cl EXCEPT !.profiles = Put(@, pf, {})], res |-> "ok"]
         [] op = "add_role_to_instance_profile" ->
              IF cl.profiles[pf] # {}
              THEN [cloud |-> cl, res |-> "LimitExceeded"]
              ELSE [cloud |-> [cl EXCEPT !.profiles[pf] = {up}], res |-> "ok"]

\* The try block with every already-exists answer raised like any other
\* ClientError.
RECURSIVE IamTry_strict(_, _, _, _, _, _, _)
IamTry_strict(cl, tr, i, f, st, cfg, user) ==
    IF i > Len(IamCalls)
    THEN [cloud |-> cl, trace |-> tr, ret |-> "ok",
          profile |-> profile_name_of(st), role |-> read_role_name(st)]
    ELSE IF f = i + 1
    THEN [cloud |-> cl, trace |-> Append(tr, Ev(IamCalls[i], "ClientError")),
          ret |-> None, profile |-> None, role |-> None]
    ELSE LET r == IamCall(cl, IamCalls[i], st, cfg, user)
         IN IF r.res # "ok"
            THEN [cloud |-> cl, trace |-> Append(tr, Ev(IamCalls[i], r.res)),
                  ret |-> None, profile |-> None, role |-> None]
            ELSE IamTry_strict(r.cloud, Append(tr, Ev(IamCalls[i], r.res)), i + 1, f,
                               st, cfg, user)

\* The try block with put_role_policy of the read role skipped when the
\* role was found to exist.
RECURSIVE IamTry_skip_existing(_, _, _, _, _, _, _)
IamTry_skip_existing(cl, tr, i, f, st, cfg, user) ==
    IF i > Len(IamCalls)
    THEN [cloud |-> cl, trace |-> tr, ret |-> "ok",
          profile |-> profile_name_of(st), role |-> read_role_name(st)]
    ELSE IF f = i + 1
    THEN [cloud |-> cl, trace |-> Append(tr, Ev(IamCalls[i], "ClientError")),
          ret |-> None, profile |-> None, role |-> None]
    ELSE LET r == IamCall(cl, IamCalls[i], st, cfg, user)
             n == IF IamCalls[i] = "create_role:read" /\ r.res = "EntityAlreadyExists"
                  THEN i + 2 ELSE i + 1
         IN IamTry_skip_existing(r.cloud, Append(tr, Ev(IamCalls[i], r.res)), n, f,
                                 st, cfg, user)

\* The try block from its i-th call on; the f-th call of create_iam_roles
\* (get_caller_identity is the first) raises a ClientError that is no
\* already-exists signal.  "None" is the (None, None) return.
RECURSIVE IamTry(_, _, _, _, _, _, _)
IamTry(cl, tr, i, f, st, cfg, user) ==
    IF i > Len(IamCalls)
    THEN [cloud |-> cl, trace |-> tr, ret |-> "ok",
          profile |-> profile_name_of(st), role |-> read_role_name(st)]
    ELSE IF f = i + 1
    THEN [cloud |-> cl, trace |-> Append(tr, Ev(IamCalls[i], "ClientError")),
          ret |-> None, profile |-> None, role |-> None]
    ELSE LET r == IamCall(cl, IamCalls[i], st, cfg, user)
         IN IamTry(r.cloud, Append(tr, Ev(IamCalls[i], r.res)), i + 1, f, st, cfg, user)

\* create_iam_roles with the permission policies built inside the try block,
\* after the first create_role: the missing key is met one call later.
create_iam_roles_late(cl, tr, st, cfg, user, f) ==
    IF f = 1
    THEN [cloud |-> cl, trace |-> Append(tr, Ev("get_caller_identity", "ClientError")),
          ret |-> "exit", profile |-> None, role |-> None]
    ELSE LET t1 == Append(tr, Ev("get_caller_identity", "ok"))
         IN IF "bucket_name" \notin DOMAIN cfg
            THEN LET r == IamCall(cl, "create_role:read", st, cfg, user)
                 IN [cloud |-> r.cloud,
                     trace |-> Append(t1, Ev("create_role:read", r.res)),
                     ret |-> "KeyError", profile |-> None, role |-> None]
            ELSE IamTry(cl, t1, 1, f, st, cfg, user)

\* create_iam_roles: ret is "ok" (names returned), "None" ((None, None)
\* returned), "exit" (sys.exit(1)) or "KeyError" (uncaught exception).
create_iam_roles(cl, tr, st, cfg, user, f) ==
    IF f = 1
    THEN [cloud |-> cl, trace |-> Append(tr, Ev("get_caller_identity", "ClientError")),
          ret |-> "exit", profile |-> None, role |-> None]
    ELSE LET t1 == Append(tr, Ev("get_caller_identity", "ok"))
         IN IF "bucket_name" \notin DOMAIN cfg
            THEN [cloud |-> cl, trace |-> t1, ret |-> "KeyError",
                  profile |-> None, role |-> None]
            ELSE IamTry(cl, t1, 1, f, st, cfg, user)

IamFaults == 0..(Len(IamCalls) + 1)

----------------------------------------------------------------------------
(* create_s3_bucket *)

NewBucket == [public_access_block |-> FALSE, lifecycle |-> {}]

\* lifecycle_config: expire logs/ after 7 days
lifecycle_config == {[ID |-> "DeleteLogsAfter7Days", Status |-> "Enabled",
                      Prefix |-> "logs/", Days |-> "7"]}

\* The try block with BucketAlreadyOwnedByYou handled like every other
\* ClientError: sys.exit(1).
BucketTry_owned_fatal(cl, tr, b, f) ==
    IF f = 1
    THEN [cloud |-> cl, trace |-> Append(tr, Ev("create_bucket", "ClientError")),
          ret |-> "exit"]
    ELSE IF b \in DOMAIN cl.buckets
    THEN [cloud |-> cl,
          trace |-> Append(tr, Ev("create_bucket", "BucketAlreadyOwnedByYou")),
          ret |-> "exit"]
    ELSE
    LET c1 == [cl EXCEPT !.buckets = Put(@, b, NewBucket)]
        t1 == Append(tr, Ev("create_bucket", "ok"))
    IN IF f = 2
       THEN [cloud |-> c1,
             trace |-> Append(t1, Ev("put_public_access_block", "ClientError")),
             ret |-> "exit"]
       ELSE
       LET c2 == [c1 EXCEPT !.buckets[b].public_access_block = TRUE]
           t2 == Append(t1, Ev("put_public_access_block", "ok"))
       IN IF f = 3
          THEN [cloud |-> c2,
                trace |-> Append(t2, Ev("put_bucket_lifecycle_configuration",
                                        "ClientError")),
                ret |-> "exit"]
          ELSE [cloud |-> [c2 EXCEPT !.buckets[b].lifecycle = lifecycle_config],
                trace |-> Append(t2, Ev("put_bucket_lifecycle_configuration", "ok")),
                ret |-> "ok"]

\* The try block of create_s3_bucket for bucket b; the f-th of its calls
\* raises a ClientError other than BucketAlreadyOwnedByYou.
BucketTry(cl, tr, b, f) ==
    IF f = 1
    THEN [cloud |-> cl, trace |-> Append(tr, Ev("create_bucket", "ClientError")),
          ret |-> "exit"]
    ELSE IF b \in DOMAIN cl.buckets
    THEN \* BucketAlreadyOwnedByYou: the handler prints and returns
         [cloud |-> cl,
          trace |-> Append(tr, Ev("create_bucket", "BucketAlreadyOwnedByYou")),
          ret |-> "ok"]
    ELSE
    LET c1 == [cl EXCEPT !.buckets = Put(@, b, NewBucket)]
        t1 == Append(tr, Ev("create_bucket", "ok"))
    IN IF f = 2
       THEN [cloud |-> c1,
             trace |-> Append(t1, Ev("put_public_access_block", "ClientError")),
             ret |-> "exit"]
       ELSE
       LET c2 == [c1 EXCEPT !.buckets[b].public_access_block = TRUE]
           t2 == Append(t1, Ev("put_public_access_block", "ok"))
       IN IF f = 3
          THEN [cloud |-> c2,
                trace |-> Append(t2, Ev("put_bucket_lifecycle_configuration",
                                        "ClientError")),
                ret |-> "exit"]
          ELSE [cloud |-> [c2 EXCEPT !.buckets[b].lifecycle = lifecycle_config],
                trace |-> Append(t2, Ev("put_bucket_lifecycle_configuration", "ok")),
                ret |-> "ok"]

\* create_s3_bucket: ret is "ok" (returned) or "exit" (sys.exit(1));
\* bucket is the value of self.bucket_name afterwards.
create_s3_bucket(cl, tr, cfg, f) ==
    IF "bucket_name" \notin DOMAIN cfg
    THEN [cloud |-> cl, trace |-> tr, ret |-> "exit", bucket |-> None]
    ELSE [bucket |-> cfg.bucket_name] @@ BucketTry(cl, tr, cfg.bucket_name, f)

BucketFaults == 0..3

----------------------------------------------------------------------------
(* create_security_group *)

AnyIp    == "0.0.0.0/0"
NarrowIp == "10.0.0.0/8"

Rule(proto, from, to, cidr) ==
    [IpProtocol |-> proto, FromPort |-> from, ToPort |-> to, CidrIp |-> cidr]

RequiredPorts == <<22, 80, 8080>>

\* existing_ports without the test of the source range
existing_ports_any_source(rules) ==
    {r.FromPort : r \in {x \in rules : x.IpProtocol = "tcp"}}

\* existing_ports: FromPort of every tcp permission open to 0.0.0.0/0
existing_ports(rules) ==
    {r.FromPort : r \in {x \in rules : x.IpProtocol = "tcp" /\ x.CidrIp = AnyIp}}

\* ports_to_add, as the set of the list's elements
ports_to_add(rules) ==
    {RequiredPorts[i] : i \in {j \in 1..Len(RequiredPorts) :
                                  RequiredPorts[j] \notin existing_ports(rules)}}

new_permissions(ports) == {Rule("tcp", p, p, AnyIp) : p \in ports}

\* authorize_security_group_ingress at the provider: a rule that is already
\* there makes the whole call fail
Authorize(cl, name, perms) ==
    IF perms \cap cl.groups[name].rules # {}
    THEN [cloud |-> cl, res |-> "ClientError"]
    ELSE [cloud |-> [cl EXCEPT !.groups[name].rules = @ \cup perms], res |-> "ok"]

\* the GroupId the provider gives the group of that name
GroupId(name) ==
    CASE name = "techeazy-sg-dev" -> "sg-0dev" [] name = "techeazy-sg-prod" -> "sg-0prod"
      [] OTHER -> "sg-0Dev"

\* create_security_group: sg_id is the group id returned, or None; desc is
\* response['SecurityGroups'] of the lookup (empty when the group was not
\* found or the lookup failed); the f-th provider call of the method raises
\* a ClientError.
create_security_group(cl, tr, st, f) ==
    LET name == sg_name(st) IN
    IF f = 1
    THEN [cloud |-> cl, trace |-> Append(tr, Ev("describe_security_groups", "ClientError")),
          sg_id |-> None, desc |-> {}]
    ELSE
    LET t1 == Append(tr, Ev("describe_security_groups", "ok")) IN
    IF name \in DOMAIN cl.groups
    THEN LET add == ports_to_add(cl.groups[name].rules) IN
         IF add = {}
         THEN [cloud |-> cl, trace |-> t1, sg_id |-> cl.groups[name].id,
               desc |-> {cl.groups[name]}]
         ELSE IF f = 2
         THEN [cloud |-> cl,
               trace |-> Append(t1, Ev("authorize_security_group_ingress", "ClientError")),
               sg_id |-> None, desc |-> {cl.groups[name]}]
         ELSE LET a == Authorize(cl, name, new_permissions(add))
              IN [cloud |-> a.cloud,
                  trace |-> Append(t1, Ev("authorize_security_group_ingress", a.res)),
                  sg_id |-> IF a.res = "ok" THEN cl.groups[name].id ELSE None,
                  desc |-> {cl.groups[name]}]
    ELSE IF f = 2
    THEN [cloud |-> cl, trace |-> Append(t1, Ev("create_security_group", "ClientError")),
          sg_id |-> None, desc |-> {}]
    ELSE
    LET c2 == [cl EXCEPT !.groups = Put(@, name, [id |-> GroupId(name), rules |-> {}])]
        t2 == Append(t1, Ev("create_security_group", "ok"))
    IN IF f = 3
       THEN [cloud |-> c2,
             trace |-> Append(t2, Ev("authorize_security_group_ingress", "ClientError")),
             sg_id |-> None, desc |-> {}]
       ELSE LET a == Authorize(c2, name, new_permissions({80, 8080, 22}))
            IN [cloud |-> a.cloud,
                trace |-> Append(t2, Ev("authorize_security_group_ingress", a.res)),
                sg_id |-> IF a.res = "ok" THEN GroupId(name) ELSE None,
                desc |-> {}]

SgFaults == 0..3

----------------------------------------------------------------------------
(* launch_instance *)

\* launch_instance that ends the run when create_security_group returned
\* no group, and names the default group beside the group it was given
launch_instance_needs_group(cl, tr, st, cfg, profile, f, g) ==
    LET s  == create_security_group(cl, tr, st, f)
        params == [ImageId |-> cfg.ami_id, InstanceType |-> cfg.instance_type,
                   IamInstanceProfile |-> profile,
                   KeyName |-> IF "aws_key" \in DOMAIN cfg THEN cfg.aws_key ELSE None,
                   SecurityGroup |-> "default"]
    IN IF g = 1 \/ s.sg_id = None
       THEN [cloud |-> s.cloud, trace |-> s.trace,
             ret |-> "exit", id |-> 0, sg_id |-> s.sg_id, desc |-> s.desc]
       ELSE [cloud |-> [s.cloud EXCEPT !.instances =
                           Append(@, [state |-> "pending", params |-> params])],
             trace |-> Append(s.trace, Ev("run_instances", "ok")),
             ret |-> "ok", id |-> Len(s.cloud.instances) + 1,
             sg_id |-> s.sg_id, desc |-> s.desc]

\* launch_instance that takes the instance of an earlier run when the
\* account has one, instead of launching
launch_instance_reuse(cl, tr, st, cfg, profile, f, g) ==
    LET s  == create_security_group(cl, tr, st, f)
        params == [ImageId |-> cfg.ami_id, InstanceType |-> cfg.instance_type,
                   IamInstanceProfile |-> profile,
                   KeyName |-> IF "aws_key" \in DOMAIN cfg THEN cfg.aws_key ELSE None,
                   SecurityGroup |-> IF s.sg_id # None THEN s.sg_id ELSE "default"]
    IN IF g = 1
       THEN [cloud |-> s.cloud, trace |-> Append(s.trace, Ev("run_instances", "ClientError")),
             ret |-> "exit", id |-> 0, sg_id |-> s.sg_id, desc |-> s.desc]
       ELSE IF Len(s.cloud.instances) > 0
       THEN [cloud |-> s.cloud, trace |-> Append(s.trace, Ev("run_instances", "ok")),
             ret |-> "ok", id |-> Len(s.cloud.instances),
             sg_id |-> s.sg_id, desc |-> s.desc]
       ELSE [cloud |-> [s.cloud EXCEPT !.instances =
                           Append(@, [state |-> "pending", params |-> params])],
             trace |-> Append(s.trace, Ev("run_instances", "ok")),
             ret |-> "ok", id |-> Len(s.cloud.instances) + 1,
             sg_id |-> s.sg_id, desc |-> s.desc]

\* launch_instance: create_security_group, then run_instances; g = 1 makes
\* run_instances raise a ClientError.  ret is "ok" or "exit"; id is the
\* value of self.instance_id afterwards (0 = None).
launch_instance(cl, tr, st, cfg, profile, f, g) ==
    LET s  == create_security_group(cl, tr, st, f)
        params == [ImageId |-> cfg.ami_id, InstanceType |-> cfg.instance_type,
                   IamInstanceProfile |-> profile,
                   KeyName |-> IF "aws_key" \in DOMAIN cfg THEN cfg.aws_key ELSE None,
                   SecurityGroup |-> IF s.sg_id # None THEN s.sg_id ELSE "default"]
    IN IF g = 1
       THEN [cloud |-> s.cloud, trace |-> Append(s.trace, Ev("run_instances", "ClientError")),
             ret |-> "exit", id |-> 0, sg_id |-> s.sg_id, desc |-> s.desc]
       ELSE [cloud |-> [s.cloud EXCEPT !.instances =
                           Append(@, [state |-> "pending", params |-> params])],
             trace |-> Append(s.trace, Ev("run_instances", "ok")),
             ret |-> "ok", id |-> Len(s.cloud.instances) + 1,
             sg_id |-> s.sg_id, desc |-> s.desc]

----------------------------------------------------------------------------
(* wait_for_instance *)

PublicIps == {"203.0.113.7", None}

\* wait_for_instance: w = 1 makes the instance_running waiter raise, d = 1
\* makes describe_instances raise; neither is caught.  ip is the address the
\* provider reports.  ret is "ok" or "crash" (uncaught exception).
wait_for_instance(cl, tr, id, w, d, ip) ==
    IF w = 1
    THEN [cloud |-> cl, trace |-> Append(tr, Ev("wait:instance_running", "WaiterError")),
          ret |-> "crash", public_ip |-> None]
    ELSE
    LET c1 == [cl EXCEPT !.instances[id].state = "running"]
        t1 == Append(tr, Ev("wait:instance_running", "ok"))
    IN IF d = 1
       THEN [cloud |-> c1, trace |-> Append(t1, Ev("describe_instances", "ClientError")),
             ret |-> "crash", public_ip |-> None]
       ELSE [cloud |-> c1, trace |-> Append(t1, Ev("describe_instances", "ok")),
             ret |-> "ok", public_ip |-> ip]

----------------------------------------------------------------------------
(* test_reachability *)

max_attempts == 3

\* what one requests.get can end with
ProbeOutcomes == {"200+Successfully Deployed", "200", "RequestException"}

\* the for loop with the backoff sleep after every failed attempt, the last
\* one too
RECURSIVE ProbeLoop_sleep_always(_, _, _)
ProbeLoop_sleep_always(tr, attempt, o) ==
    IF attempt >= max_attempts
    THEN [trace |-> tr, ret |-> FALSE]
    ELSE LET t1 == Append(tr, Ev("requests.get", o[attempt + 1]))
         IN IF o[attempt + 1] = "200+Successfully Deployed"
            THEN [trace |-> t1, ret |-> TRUE]
            ELSE ProbeLoop_sleep_always(Append(t1, Ev("sleep:60", "ok")), attempt + 1, o)

\* the for loop from attempt `attempt` (0-based) on; o[k] is the outcome of
\* the k-th request
RECURSIVE ProbeLoop(_, _, _)
ProbeLoop(tr, attempt, o) ==
    IF attempt >= max_attempts
    THEN [trace |-> tr, ret |-> FALSE]
    ELSE LET t1 == Append(tr, Ev("requests.get", o[attempt + 1]))
         IN IF o[attempt + 1] = "200+Successfully Deployed"
            THEN [trace |-> t1, ret |-> TRUE]
            ELSE IF attempt < max_attempts - 1
                 THEN ProbeLoop(Append(t1, Ev("sleep:60", "ok")), attempt + 1, o)
                 ELSE ProbeLoop(t1, attempt + 1, o)

\* test_reachability without the settle delay
test_reachability_no_settle(tr, o) == ProbeLoop(tr, 0, o)

test_reachability(tr, o) == ProbeLoop(Append(tr, Ev("sleep:300", "ok")), 0, o)

\* outcomes the environment can produce for the address: without an
\* address every request fails to connect
ProbeInputsOf(ip, outcomes) ==
    IF ip = None THEN {[k \in 1..max_attempts |-> "RequestException"]}
    ELSE [1..max_attempts -> outcomes]

ProbeInputs(ip) == ProbeInputsOf(ip, ProbeOutcomes)

\* the outcomes with the other status codes: a status that is not 200,
\* with and without the text in the body
AllProbeOutcomes == ProbeOutcomes \cup {"500", "500+Successfully Deployed"}

----------------------------------------------------------------------------
(* upload_logs_and_stop_instance *)

StopInstance(cl, id) == [cl EXCEPT !.instances[id].state = "stopping"]

\* upload_logs_and_stop_instance that stops the instance also when
\* send_command was refused
upload_logs_and_stop_instance_stop_anyway(cl, tr, cfg, id, s, w, p) ==
    LET t0 == Append(tr, Ev("sleep:stop_after", "ok")) IN
    IF s = 1
    THEN [cloud |-> StopInstance(cl, id),
          trace |-> Append(Append(t0, Ev("send_command", "ClientError")),
                           Ev("stop_instances", "ok")),
          ret |-> "ok"]
    ELSE
    LET t1 == Append(Append(t0, Ev("send_command", "ok")), Ev("sleep:15", "ok"))
        t2 == Append(t1, Ev("wait:command_executed", IF w = 1 THEN "WaiterError" ELSE "ok"))
    IN IF p = 1
       THEN [cloud |-> cl, trace |-> Append(t2, Ev("stop_instances", "ClientError")),
             ret |-> IF w = 1 THEN "crash" ELSE "ok"]
       ELSE [cloud |-> StopInstance(cl, id),
             trace |-> Append(t2, Ev("stop_instances", "ok")), ret |-> "ok"]

\* upload_logs_and_stop_instance: s = 1 makes send_command raise a
\* ClientError, w = 1 makes the command_executed waiter raise a WaiterError,
\* p = 1 makes stop_instances raise a ClientError.  ret is "ok" (returned)
\* or "crash" (an exception left the method).
upload_logs_and_stop_instance(cl, tr, cfg, id, s, w, p) ==
    LET t0 == Append(tr, Ev("sleep:stop_after", "ok")) IN
    IF s = 1
    THEN \* except ClientError: print
         [cloud |-> cl, trace |-> Append(t0, Ev("send_command", "ClientError")),
          ret |-> "ok"]
    ELSE
    LET t1 == Append(Append(t0, Ev("send_command", "ok")), Ev("sleep:15", "ok")) IN
    IF w = 1
    THEN \* except WaiterError: print, then stop_instances outside the try
         LET t2 == Append(t1, Ev("wait:command_executed", "WaiterError")) IN
         IF p = 1
         THEN [cloud |-> cl, trace |-> Append(t2, Ev("stop_instances", "ClientError")),
               ret |-> "crash"]
         ELSE [cloud |-> StopInstance(cl, id),
               trace |-> Append(t2, Ev("stop_instances", "ok")), ret |-> "ok"]
    ELSE
    LET t2 == Append(t1, Ev("wait:command_executed", "ok")) IN
    IF p = 1
    THEN \* except ClientError: print
         [cloud |-> cl, trace |-> Append(t2, Ev("stop_instances", "ClientError")),
          ret |-> "ok"]
    ELSE [cloud |-> StopInstance(cl, id),
          trace |-> Append(t2, Ev("stop_instances", "ok")), ret |-> "ok"]

----------------------------------------------------------------------------
(* verify_s3_access *)

\* sts:AssumeRole at the provider: only a principal the trust policy names
AssumeRole(cl, role, user) ==
    IF user \in cl.roles[role].trust THEN "ok" ELSE "ClientError"

\* list_objects_v2 with the role's credentials
ListObjects(cl, role, b) ==
    IF \E pn \in DOMAIN cl.roles[role].inline :
          <<"s3:ListBucket", b>> \in cl.roles[role].inline[pn]
    THEN "ok" ELSE "ClientError"

\* verify_s3_access without the except clause: a ClientError leaves the
\* method ("crash")
verify_s3_access_uncaught(cl, tr, role, b, user, f) ==
    IF f = 1 \/ role \notin DOMAIN cl.roles
    THEN [trace |-> Append(tr, Ev("get_role", "ClientError")), ret |-> "crash"]
    ELSE
    LET t1 == Append(tr, Ev("get_role", "ok")) IN
    IF f = 2 \/ AssumeRole(cl, role, user) # "ok"
    THEN [trace |-> Append(t1, Ev("assume_role", "ClientError")), ret |-> "crash"]
    ELSE
    LET t2 == Append(t1, Ev("assume_role", "ok")) IN
    IF f = 3 \/ ListObjects(cl, role, b) # "ok"
    THEN [trace |-> Append(t2, Ev("list_objects_v2", "ClientError")), ret |-> "crash"]
    ELSE [trace |-> Append(t2, Ev("list_objects_v2", "ok")), ret |-> "ok"]

\* verify_s3_access: the f-th call raises a ClientError; every ClientError is
\* caught and printed, the method always returns (ret is "ok").
verify_s3_access(cl, tr, role, b, user, f) ==
    IF f = 1 \/ role \notin DOMAIN cl.roles
    THEN [trace |-> Append(tr, Ev("get_role", "ClientError")), ret |-> "ok"]
    ELSE
    LET t1 == Append(tr, Ev("get_role", "ok")) IN
    IF f = 2 \/ AssumeRole(cl, role, user) # "ok"
    THEN [trace |-> Append(t1, Ev("assume_role", "ClientError")), ret |-> "ok"]
    ELSE
    LET t2 == Append(t1, Ev("assume_role", "ok")) IN
    IF f = 3 \/ ListObjects(cl, role, b) # "ok"
    THEN [trace |-> Append(t2, Ev("list_objects_v2", "ClientError")), ret |-> "ok"]
    ELSE [trace |-> Append(t2, Ev("list_objects_v2", "ok")), ret |-> "ok"]

VerifyFaults == 0..3

----------------------------------------------------------------------------
(* main and deploy *)

\* deploy() with read-access verification called before the log harvest
deploy_next_verify_first(step, ret) ==
    CASE step = "main"    -> IF ret = "ok" THEN "iam" ELSE "exited"
      [] step = "iam"     -> IF ret = "ok" THEN "bucket" ELSE "exited"
      [] step = "bucket"  -> IF ret = "ok" THEN "launch" ELSE "exited"
      [] step = "launch"  -> IF ret = "ok" THEN "wait" ELSE "exited"
      [] step = "wait"    -> IF ret = "ok" THEN "reach" ELSE "exited"
      [] step = "reach"   -> "verify"
      [] step = "verify"  -> IF ret = "ok" THEN "harvest" ELSE "exited"
      [] step = "harvest" -> IF ret = "ok" THEN "done" ELSE "exited"

\* deploy() without the check of create_iam_roles' (None, None) return
deploy_next_ignore_iam(step, ret) ==
    CASE step = "main"    -> IF ret = "ok" THEN "iam" ELSE "exited"
      [] step = "iam"     -> IF ret \in {"ok", None} THEN "bucket" ELSE "exited"
      [] step = "bucket"  -> IF ret = "ok" THEN "launch" ELSE "exited"
      [] step = "launch"  -> IF ret = "ok" THEN "wait" ELSE "exited"
      [] step = "wait"    -> IF ret = "ok" THEN "reach" ELSE "exited"
      [] step = "reach"   -> "harvest"
      [] step = "harvest" -> IF ret = "ok" THEN "verify" ELSE "exited"
      [] step = "verify"  -> IF ret = "ok" THEN "done" ELSE "exited"

\* Where the process goes after a step of main()/deploy() that ended with
\* ret: the next step, "done" (main returned) or "exited" (sys.exit(1) or an
\* uncaught exception).
deploy_next(step, ret) ==
    CASE step = "main"    -> IF ret = "ok" THEN "iam" ELSE "exited"
      [] step = "iam"     -> IF ret = "ok" THEN "bucket" ELSE "exited"
      [] step = "bucket"  -> IF ret = "ok" THEN "launch" ELSE "exited"
      [] step = "launch"  -> IF ret = "ok" THEN "wait" ELSE "exited"
      [] step = "wait"    -> IF ret = "ok" THEN "reach" ELSE "exited"
      [] step = "reach"   -> "harvest"
      [] step = "harvest" -> IF ret = "ok" THEN "verify" ELSE "exited"
      [] step = "verify"  -> IF ret = "ok" THEN "done" ELSE "exited"

\* the exit status at position p
ExitStatus(p) == IF p = "exited" THEN 1 ELSE IF p = "done" THEN 0 ELSE -1

Goto(p) == pc' = p /\ exitCode' = ExitStatus(p)

FreshCloud == [roles |-> EmptyMap, profiles |-> EmptyMap, buckets |-> EmptyMap,
               groups |-> EmptyMap, instances |-> <<>>]

\* ingress rules a group of the stage's name may already have
InitialRuleSets == { {Rule("tcp", 22, 22, AnyIp)},
                     {Rule("tcp", 80, 80, NarrowIp), Rule("udp", 8080, 8080, AnyIp)} }

InitialClouds(st) ==
    {FreshCloud} \cup
    {[FreshCloud EXCEPT !.groups =
         Put(@, sg_name(st), [id |-> GroupId(sg_name(st)), rules |-> R])] :
       R \in InitialRuleSets}

\* the state after construction, on one of the given accounts
StartAs(clouds, callers) ==
    /\ pc = "main"
    /\ run = 1
    /\ \E a \in StageArgs : stage = lower(a)
    /\ \E files \in ConfigFiles : config = load_config(files)
    /\ caller \in callers
    /\ instance_id = 0
    /\ bucket_name = None
    /\ profile_name = None
    /\ read_role = None
    /\ public_ip = None
    /\ sg_desc = {}
    /\ sg_id = None
    /\ reachable = None
    /\ exitCode = -1
    /\ trace = <<>>
    /\ cloud \in clouds
    /\ runs = <<>>

Start(clouds) == StartAs(clouds, Callers)

Init == Start(InitialClouds(stage))

\* main(): the credential variables are checked, then the deployer is built
Main ==
    /\ pc = "main"
    /\ \E creds \in BOOLEAN : Goto(deploy_next("main", IF creds THEN "ok" ELSE "exit"))
    /\ UNCHANGED <<sg_desc, sg_id, run, stage, config, caller, instance_id, bucket_name, profile_name,
                   read_role, public_ip, reachable, trace, cloud, runs>>

Iam ==
    /\ pc = "iam"
    /\ \E f \in IamFaults :
         LET r == create_iam_roles(cloud, trace, stage, config, caller, f)
         IN /\ cloud' = r.cloud
            /\ trace' = r.trace
            /\ profile_name' = r.profile
            /\ read_role' = r.role
            /\ Goto(deploy_next("iam", r.ret))
    /\ UNCHANGED <<sg_desc, sg_id, run, stage, config, caller, instance_id, bucket_name, public_ip,
                   reachable, runs>>

Bucket ==
    /\ pc = "bucket"
    /\ \E f \in BucketFaults :
         LET r == create_s3_bucket(cloud, trace, config, f)
         IN /\ cloud' = r.cloud
            /\ trace' = r.trace
            /\ bucket_name' = r.bucket
            /\ Goto(deploy_next("bucket", r.ret))
    /\ UNCHANGED <<sg_desc, sg_id, run, stage, config, caller, instance_id, profile_name, read_role,
                   public_ip, reachable, runs>>

Launch ==
    /\ pc = "launch"
    /\ \E f \in SgFaults, g \in 0..1 :
         LET r == launch_instance(cloud, Append(trace, Ev("sleep:10", "ok")), stage,
                                  config, profile_name, f, g)
         IN /\ cloud' = r.cloud
            /\ trace' = r.trace
            /\ instance_id' = r.id
            /\ sg_desc' = r.desc
            /\ sg_id' = r.sg_id
            /\ Goto(deploy_next("launch", r.ret))
    /\ UNCHANGED <<run, stage, config, caller, bucket_name, profile_name, read_role,
                   public_ip, reachable, runs>>

Wait ==
    /\ pc = "wait"
    /\ \E w \in 0..1, d \in 0..1, ip \in PublicIps :
         LET r == wait_for_instance(cloud, trace, instance_id, w, d, ip)
         IN /\ cloud' = r.cloud
            /\ trace' = r.trace
            /\ public_ip' = r.public_ip
            /\ Goto(deploy_next("wait", r.ret))
    /\ UNCHANGED <<sg_desc, sg_id, run, stage, config, caller, instance_id, bucket_name, profile_name,
                   read_role, reachable, runs>>

\* deploy(): test_reachability(public_ip), the outcomes of the requests
\* drawn from inputs
ReachWith(inputs) ==
    /\ pc = "reach"
    /\ \E o \in inputs :
         LET r == test_reachability(trace, o)
         IN /\ trace' = r.trace
            /\ reachable' = IF r.ret THEN "True" ELSE "False"
            /\ Goto(deploy_next("reach", "ok"))
    /\ UNCHANGED <<sg_desc, sg_id, run, stage, config, caller, instance_id, bucket_name, profile_name,
                   read_role, public_ip, cloud, runs>>

Reach == ReachWith(ProbeInputs(public_ip))

ReachAll == ReachWith(ProbeInputsOf(public_ip, AllProbeOutcomes))

Harvest ==
    /\ pc = "harvest"
    /\ \E s \in 0..1, w \in 0..1, p \in 0..1 :
         LET r == upload_logs_and_stop_instance(cloud, trace, config, instance_id, s, w, p)
         IN /\ cloud' = r.cloud
            /\ trace' = r.trace
            /\ Goto(deploy_next("harvest", r.ret))
    /\ UNCHANGED <<sg_desc, sg_id, run, stage, config, caller, instance_id, bucket_name, profile_name,
                   read_role, public_ip, reachable, runs>>

Verify ==
    /\ pc = "verify"
    /\ \E f \in VerifyFaults :
         LET r == verify_s3_access(cloud, trace, read_role, bucket_name, caller, f)
         IN /\ trace' = r.trace
            /\ Goto(deploy_next("verify", r.ret))
    /\ UNCHANGED <<sg_desc, sg_id, run, stage, config, caller, instance_id, bucket_name, profile_name,
                   read_role, public_ip, reachable, cloud, runs>>

IdentityOps == {"get_caller_identity"} \cup {IamCalls[i] : i \in 1..Len(IamCalls)}
BucketOps   == {"create_bucket", "put_public_access_block",
                "put_bucket_lifecycle_configuration"}
GroupOps    == {"describe_security_groups", "create_security_group",
                "authorize_security_group_ingress"}
ReadyOps    == {"wait:instance_running", "describe_instances"}
ReachOps    == {"sleep:300", "requests.get", "sleep:60"}
HarvestOps  == {"sleep:stop_after", "send_command", "sleep:15", "wait:command_executed"}
VerifyOps   == {"get_role", "assume_role", "list_objects_v2"}

\* the fatal-class provider errors: identity resolution, IAM, bucket, launch
FatalEntry(e) ==
    /\ e.res = "ClientError"
    /\ e.op \in IdentityOps \cup BucketOps \cup {"run_instances"}

\* a provider error (other than the benign already-exists signals) in tr
Errors(tr) == {i \in 1..Len(tr) : tr[i].res \in {"ClientError", "WaiterError"}}

\* how a run ended: "done", "fatal" (ended by a ClientError of an identity,
\* bucket or launch call) or "other"
Ending(p, tr) ==
    IF p = "done" THEN "done"
    ELSE IF tr # <<>> /\ FatalEntry(tr[Len(tr)]) THEN "fatal" ELSE "other"

\* what is kept of a finished run: how it ended and the names
\* create_iam_roles returned in it
RunRecord(p, tr, profile, role) ==
    [end |-> Ending(p, tr), profile |-> profile, role |-> role]

\* the process is started again with the same stage and configuration on
\* the account the earlier runs left behind
RerunAs(callers) ==
    /\ pc \in {"done", "exited"}
    /\ run < MaxRuns
    /\ run' = run + 1
    /\ runs' = Append(runs, RunRecord(pc, trace, profile_name, read_role))
    /\ pc' = "main"
    /\ caller' \in callers
    /\ instance_id' = 0
    /\ bucket_name' = None
    /\ profile_name' = None
    /\ read_role' = None
    /\ public_ip' = None
    /\ sg_desc' = {}
    /\ sg_id' = None
    /\ reachable' = None
    /\ exitCode' = -1
    /\ trace' = <<>>
    /\ UNCHANGED <<stage, config, cloud>>

Rerun == RerunAs(Callers)

Next == Main \/ Iam \/ Bucket \/ Launch \/ Wait \/ Reach \/ Harvest \/ Verify \/ Rerun

Spec == Init /\ [][Next]_vars

\* The run up to the launch, on an account whose group of the stage's name
\* has any set of the ingress rules below: single ports, a port range and
\* an all-protocol rule, open to every source or to a narrower one.
RuleUniverse == {Rule("tcp", 22, 22, AnyIp), Rule("tcp", 80, 80, NarrowIp),
                 Rule("udp", 8080, 8080, AnyIp), Rule("tcp", 20, 100, AnyIp),
                 Rule("tcp", 8080, 8080, AnyIp), Rule("-1", -1, -1, AnyIp)}

GroupClouds(st) ==
    {[FreshCloud EXCEPT !.groups =
         Put(@, sg_name(st), [id |-> GroupId(sg_name(st)), rules |-> R])] :
       R \in SUBSET RuleUniverse}

InitSg == Start({FreshCloud} \cup GroupClouds(stage))

NextSg == Main \/ Iam \/ Bucket \/ Launch

SpecSg == InitSg /\ [][NextSg]_vars

\* The run up to the return of test_reachability, on a fresh account, with
\* every outcome of a request.
InitProbe == Start({FreshCloud})

NextProbe == Main \/ Iam \/ Bucket \/ Launch \/ Wait \/ ReachAll

SpecProbe == InitProbe /\ [][NextProbe]_vars

\* Runs on a fresh account under callers that may differ from run to run.
TwoCallers == {"arn:user/alice", "arn:user/bob"}

InitCaller == StartAs({FreshCloud}, TwoCallers)

RerunCaller == RerunAs(TwoCallers)

NextCaller == Main \/ Iam \/ Bucket \/ Launch \/ Wait \/ Reach \/ Harvest \/ Verify
              \/ RerunCaller

SpecCaller == InitCaller /\ [][NextCaller]_vars

----------------------------------------------------------------------------
(* Vocabulary of the properties *)

Has(op)        == op \in Ops(trace)
Got(op, res)   == \E i \in 1..Len(trace) : trace[i] = Ev(op, res)
Finished       == pc \in {"done", "exited"}

\* calls that create or change a resource of the account
MutatingCalls == (IdentityOps \ {"get_caller_identity"}) \cup BucketOps
                 \cup {"create_security_group", "authorize_security_group_ingress",
                       "run_instances"}

\* the step of the sequence an entry of the trace belongs to (0: none)
StepRank(op) ==
    CASE op \in IdentityOps      -> 1
      [] op \in BucketOps        -> 2
      [] op \in GroupOps         -> 3
      [] op = "run_instances"    -> 4
      [] op \in ReadyOps         -> 5
      [] op \in ReachOps         -> 6
      [] op \in HarvestOps       -> 7
      [] op = "stop_instances"   -> 8
      [] op \in VerifyOps        -> 9
      [] OTHER                   -> 0

AllOps == IdentityOps \cup BucketOps \cup GroupOps \cup ReadyOps \cup ReachOps
          \cup HarvestOps \cup VerifyOps \cup {"run_instances", "stop_instances", "sleep:10"}

RankOf == [op \in AllOps |-> StepRank(op)]

Ranks(tr) == {RankOf[tr[i].op] : i \in 1..Len(tr)}

\* the named resources as an error-free first run leaves them
Provisioned(cl, st, b) ==
    LET rd == read_role_name(st)
        up == upload_role_name(st)
        pf == profile_name_of(st)
        sg == sg_name(st)
    IN /\ {rd, up} \subseteq DOMAIN cl.roles
       /\ "S3ReadOnlyPolicy" \in DOMAIN cl.roles[rd].inline
       /\ cl.roles[rd].inline["S3ReadOnlyPolicy"] = read_policy(b)
       /\ "S3UploadOnlyPolicy" \in DOMAIN cl.roles[up].inline
       /\ cl.roles[up].inline["S3UploadOnlyPolicy"] = upload_policy(b)
       /\ SSMPolicyArn \in cl.roles[up].managed
       /\ pf \in DOMAIN cl.profiles
       /\ cl.profiles[pf] = {up}
       /\ b \in DOMAIN cl.buckets
       /\ cl.buckets[b].public_access_block
       /\ cl.buckets[b].lifecycle = lifecycle_config
       /\ sg \in DOMAIN cl.groups
       /\ {22, 80, 8080} \subseteq existing_ports(cl.groups[sg].rules)

FatalRaised(tr) == \E i \in 1..Len(tr) : FatalEntry(tr[i])

----------------------------------------------------------------------------
(* Properties *)

\* C1: once upload_logs_and_stop_instance has slept the idle window, a
\* stop_instances request is issued before the step returns, whatever
\* send_command and the command wait answered.
C1_StopOnEveryPath ==
    (Has("sleep:stop_after") /\ pc # "harvest") => Has("stop_instances")

\* C2: a run that is about to launch has applied the public-access block
\* and the logs/ lifecycle rule in create_s3_bucket, whether create_bucket
\* created the bucket or answered BucketAlreadyOwnedByYou.
C2_BucketPolicyEveryRun ==
    pc = "launch" =>
       /\ Has("put_public_access_block")
       /\ Has("put_bucket_lifecycle_configuration")

\* C3: with stage "dev", no configuration file (the defaults) and no provider
\* error, the process does not end with a non-zero exit: it runs the whole
\* sequence and exits 0.
C3_DefaultsRunCompletes ==
    (stage = "dev" /\ config = DefaultConfig /\ trace # <<>> /\ Errors(trace) = {})
       => /\ pc # "exited"
          /\ (pc = "done" => exitCode = 0 /\ Ranks(trace) = 0..9)

\* C4: with no bucket_name key in the configuration no mutating provider
\* call is ever issued, the account is as it was found, the run never gets
\* past create_iam_roles and it ends with a non-zero exit.
C4_NoMutationWithoutBucketName ==
    "bucket_name" \notin DOMAIN config =>
       /\ Ops(trace) \cap MutatingCalls = {}
       /\ cloud \in InitialClouds(stage)
       /\ pc \in {"main", "iam", "exited"}
       /\ (pc = "exited" => exitCode = 1)

C4_Witness ==
    /\ "bucket_name" \notin DOMAIN config
    /\ Got("get_caller_identity", "ok")
    /\ pc = "exited"
    /\ exitCode = 1

\* C5: a ClientError of stop_instances never leaves
\* upload_logs_and_stop_instance: after it the process is at read-access
\* verification (or past it), on the completed-wait and the failed-wait
\* path alike.
C5_StopErrorSwallowed ==
    Got("stop_instances", "ClientError") => pc \in {"verify", "done"}

\* C6: the entries of a run's trace follow the order identity, bucket,
\* security group, launch, readiness, reachability, harvest, stop,
\* verification: each entry that belongs to a step is followed (next, or
\* next but one across an entry of no step) by an entry of the same or a
\* later step, and once verification has run the process is done with
\* nothing after it.
C6_StepsInOrder ==
    /\ \A i \in 1..Len(trace) :
          LET r == RankOf[trace[i].op]
          IN \A j \in {i + 1, i + 2} :
                (j <= Len(trace) /\ r # 0 /\ RankOf[trace[j].op] # 0
                   /\ (j = i + 2 => RankOf[trace[i + 1].op] = 0))
                   => r <= RankOf[trace[j].op]
    /\ (9 \in Ranks(trace)) => (pc = "done" /\ RankOf[trace[Len(trace)].op] = 9)

C6_Witness ==
    /\ pc = "done"
    /\ Ranks(trace) = 0..9

\* C7: when an earlier run was aborted by a fatal error at a provisioning
\* step, a later run without any provider error that completes leaves the
\* roles, policies, profile, bucket settings and group ports as an
\* error-free first run does.
C7_RerunRepairs ==
    ( /\ \E k \in 1..Len(runs) : runs[k].end = "fatal"
      /\ Errors(trace) = {}
      /\ pc = "done" )
       => Provisioned(cloud, stage, bucket_name)

\* C8: after a WaiterError of the command wait a stop request has been
\* issued and the run is at read-access verification (or past it).
C8_WaitFailureNotFatal ==
    Got("wait:command_executed", "WaiterError") =>
       /\ Has("stop_instances")
       /\ pc \in {"verify", "done"}

\* C9: when test_reachability returned False the finished run has
\* nevertheless run the log harvest, the instance stop and the read-access
\* verification, and a run that completed exits with code 0.
C9_ReachabilityAdvisory ==
    (reachable = "False" /\ Finished) =>
       /\ Has("send_command")
       /\ Has("stop_instances")
       /\ Has("get_role")
       /\ (pc = "done" => exitCode = 0)

\* C10: a fatal-class provider error is the last entry of its run's trace
\* and the process has exited with a non-zero code; from then on the
\* account is not changed.
C10_FatalStopsTheRun ==
    /\ [](\A i \in 1..Len(trace) :
            FatalEntry(trace[i]) =>
               /\ i = Len(trace)
               /\ pc = "exited"
               /\ exitCode = 1)
    /\ [][FatalRaised(trace) => cloud' = cloud]_vars

C10_Witness ==
    /\ Got("run_instances", "ClientError")
    /\ pc = "exited"
    /\ cloud.buckets # EmptyMap

\* C11: the account never holds a named resource other than the read role,
\* the upload role, the instance profile, the bucket and the security group
\* of the stage, one of each, whatever the number of runs; every name or
\* group id a run obtained is the one of the stage.
C11_NoDuplicateResources ==
    /\ DOMAIN cloud.roles \subseteq {read_role_name(stage), upload_role_name(stage)}
    /\ DOMAIN cloud.profiles \subseteq {profile_name_of(stage)}
    /\ DOMAIN cloud.buckets \subseteq
          (IF "bucket_name" \in DOMAIN config THEN {config.bucket_name} ELSE {})
    /\ DOMAIN cloud.groups \subseteq {sg_name(stage)}
    /\ profile_name \in {None, profile_name_of(stage)}
    /\ read_role \in {None, read_role_name(stage)}
    /\ bucket_name # None => bucket_name = config.bucket_name
    /\ sg_id \in {None, GroupId(sg_name(stage))}

C11_Witness ==
    /\ run > 1
    /\ runs[1].end = "done"
    /\ pc = "done"
    /\ Got("create_role:read", "EntityAlreadyExists")
    /\ Got("create_role:upload", "EntityAlreadyExists")
    /\ Got("create_instance_profile", "EntityAlreadyExists")
    /\ Got("create_bucket", "BucketAlreadyOwnedByYou")
    /\ sg_desc # {}
    /\ sg_id = GroupId(sg_name(stage))

\* the required ports a set of rules opens for tcp traffic from 0.0.0.0/0
OpenTcp(rules) ==
    {RequiredPorts[i] : i \in {j \in 1..Len(RequiredPorts) :
        \E r \in rules :
           /\ r.CidrIp = AnyIp
           /\ \/ r.IpProtocol = "-1"
              \/ /\ r.IpProtocol = "tcp"
                 /\ r.FromPort <= RequiredPorts[j]
                 /\ RequiredPorts[j] <= r.ToPort}}

\* the rules the lookup of create_security_group saw on the existing group
RulesBefore == (CHOOSE g \in sg_desc : TRUE).rules

\* the rules the group of the stage has now
RulesNow == cloud.groups[sg_name(stage)].rules

\* C12: when create_security_group found the group and returned its id,
\* ports 22, 80 and 8080 are all open for tcp from 0.0.0.0/0 on the group
\* and every rule the group had at the lookup is still there.
C12_ExistingGroupReconciled ==
    (sg_desc # {} /\ sg_id # None) =>
       /\ {22, 80, 8080} \subseteq OpenTcp(RulesNow)
       /\ RulesBefore \subseteq RulesNow

C12_Witness ==
    /\ sg_desc # {}
    /\ sg_id # None
    /\ Rule("tcp", 80, 80, NarrowIp) \in RulesBefore
    /\ Rule("udp", 8080, 8080, AnyIp) \in RulesBefore
    /\ Got("authorize_security_group_ingress", "ok")
    /\ Has("run_instances")

\* the calls of authorize_security_group_ingress made in this run
AuthorizeCalls == {i \in 1..Len(trace) : trace[i].op = "authorize_security_group_ingress"}

\* C13: on an existing group the rules added are exactly the single-port
\* tcp rules from 0.0.0.0/0 for the required ports that were not open to
\* 0.0.0.0/0 at the lookup, added by at most one authorize call, and no
\* rule of the group is removed.
C13_AddsExactlyMissingPorts ==
    (sg_desc # {} /\ sg_id # None) =>
       /\ RulesNow \ RulesBefore =
             new_permissions({22, 80, 8080} \ OpenTcp(RulesBefore))
       /\ RulesBefore \subseteq RulesNow
       /\ Cardinality(AuthorizeCalls) <= 1

\* create_iam_roles has been called in this run (and has returned, the
\* call being one step)
IamReturned == Has("get_caller_identity")

\* no call of create_iam_roles raised a provider error in this run
IamErrorFree == \A i \in 1..Len(trace) :
                   trace[i].op \in IdentityOps => trace[i].res # "ClientError"

\* C15: when create_iam_roles returned names in an earlier run, a later
\* call for the same stage and configuration in which the provider raises
\* nothing but the already-exists answers does not end the run and returns
\* the same profile name and read-role name.
C15_SecondCallSameNames ==
    \A k \in 1..Len(runs) :
       (runs[k].profile # None /\ IamReturned /\ IamErrorFree) =>
          /\ profile_name = runs[k].profile
          /\ read_role = runs[k].role
          /\ (pc = "exited" => Has("create_bucket"))

C15_Witness ==
    /\ Len(runs) >= 1
    /\ runs[1].profile = profile_name_of(stage)
    /\ pc = "launch"
    /\ Got("create_role:read", "EntityAlreadyExists")
    /\ Got("create_role:upload", "EntityAlreadyExists")
    /\ Got("create_instance_profile", "EntityAlreadyExists")
    /\ Got("add_role_to_instance_profile", "LimitExceeded")
    /\ profile_name = runs[1].profile
    /\ read_role = runs[1].role

\* a call of create_security_group raised a provider error in this run
GroupError == \E i \in 1..Len(trace) :
                 trace[i].op \in GroupOps /\ trace[i].res = "ClientError"

\* the group the launch request of this run named
LaunchedGroup == cloud.instances[instance_id].params.SecurityGroup

\* C16: after a provider error of the group lookup, creation or
\* authorization no group id is held, run_instances has still been called
\* and an instance it launched is in the default group; when a group id is
\* held the launched instance is in exactly that group.
C16_GroupFailureFallsBack ==
    /\ GroupError =>
          /\ sg_id = None
          /\ Has("run_instances")
          /\ (instance_id # 0 => LaunchedGroup = "default")
    /\ (sg_id # None /\ instance_id # 0) =>
          /\ LaunchedGroup = sg_id
          /\ LaunchedGroup # "default"

\* a run that went on to completion after the authorize call failed
C16_Witness ==
    /\ Got("authorize_security_group_ingress", "ClientError")
    /\ sg_id = None
    /\ instance_id # 0
    /\ LaunchedGroup = "default"
    /\ pc = "done"

\* C17: after create_bucket answered BucketAlreadyOwnedByYou the bucket name
\* of the configuration is held and the run is at the launch step or past
\* it.
C17_OwnedBucketIsSuccess ==
    Got("create_bucket", "BucketAlreadyOwnedByYou") =>
       /\ bucket_name = config.bucket_name
       /\ (pc = "launch" \/ Has("sleep:10"))

C17_Witness ==
    /\ Got("create_bucket", "BucketAlreadyOwnedByYou")
    /\ bucket_name = "logs-bucket"
    /\ Has("run_instances")

\* read-access verification has been called in this run
VerifyCalled == \E i \in 1..Len(trace) : trace[i].op \in VerifyOps

\* C18: a run in which verify_s3_access was called has completed with exit
\* code 0, whether get_role, assume_role or list_objects_v2 raised a
\* provider error or not.
C18_VerifyErrorsNotFatal ==
    VerifyCalled => (pc = "done" /\ exitCode = 0)

C18_Witness ==
    /\ \E op \in VerifyOps : Got(op, "ClientError")
    /\ Got("get_role", "ok")
    /\ pc = "done"
    /\ exitCode = 0

\* the roles and the profile as an error-free first call of
\* create_iam_roles leaves them
IamProvisioned(cl, st, b) ==
    LET rd == read_role_name(st)
        up == upload_role_name(st)
        pf == profile_name_of(st)
    IN /\ {rd, up} \subseteq DOMAIN cl.roles
       /\ "S3ReadOnlyPolicy" \in DOMAIN cl.roles[rd].inline
       /\ cl.roles[rd].inline["S3ReadOnlyPolicy"] = read_policy(b)
       /\ "S3UploadOnlyPolicy" \in DOMAIN cl.roles[up].inline
       /\ cl.roles[up].inline["S3UploadOnlyPolicy"] = upload_policy(b)
       /\ SSMPolicyArn \in cl.roles[up].managed
       /\ pf \in DOMAIN cl.profiles
       /\ cl.profiles[pf] = {up}

\* an earlier run ended inside create_iam_roles on a provider error
IamFailedBefore ==
    \E k \in 1..Len(runs) : runs[k].end = "fatal" /\ runs[k].profile = None

\* C19: when an earlier run ended inside create_iam_roles on a provider
\* error, a later call with the same stage and configuration in which no
\* call raises a provider error returns the names and leaves both roles
\* with their inline policies, the managed policy on the upload role and
\* the profile bound to the upload role; the only calls made are those of
\* the normal sequence.
C19_IamRetryConverges ==
    (IamFailedBefore /\ IamReturned /\ IamErrorFree
        /\ "bucket_name" \in DOMAIN config) =>
       /\ profile_name = profile_name_of(stage)
       /\ read_role = read_role_name(stage)
       /\ IamProvisioned(cloud, stage, config.bucket_name)
       /\ Ops(trace) \subseteq AllOps

\* the earlier run had created the read role and failed before the upload
\* role was created
C19_Witness ==
    /\ IamFailedBefore
    /\ Got("create_role:read", "EntityAlreadyExists")
    /\ Got("create_role:upload", "ok")
    /\ Got("add_role_to_instance_profile", "ok")
    /\ IamProvisioned(cloud, stage, config.bucket_name)

\* the calls of test_reachability in this run, in order
IsReachEntry(e) == e.op \in ReachOps
ReachEntries == SelectSeq(trace, IsReachEntry)
ReachCalls   == [i \in 1..Len(ReachEntries) |-> ReachEntries[i].op]

Probes      == {i \in 1..Len(trace) : trace[i].op = "requests.get"}
ProbeSuccess(i) == trace[i] = Ev("requests.get", "200+Successfully Deployed")

\* C14: when test_reachability has returned and no request was answered
\* 200 with the expected text, it made the settle sleep, then exactly three
\* requests with one backoff sleep between consecutive requests and none
\* after the last, and it returned False: the run goes on to the log
\* harvest.
C14_ExhaustedAfterThreeProbes ==
    (reachable # None /\ \A i \in Probes : ~ProbeSuccess(i)) =>
       /\ ReachCalls = <<"sleep:300", "requests.get", "sleep:60",
                         "requests.get", "sleep:60", "requests.get">>
       /\ reachable = "False"
       /\ pc = "harvest"

\* a 200 without the text, a status other than 200 with the text, a
\* request error
C14_Witness ==
    /\ reachable = "False"
    /\ Got("requests.get", "200")
    /\ Got("requests.get", "500+Successfully Deployed")
    /\ Got("requests.get", "RequestException")

\* C20: no request is made before the settle sleep; a request answered 200
\* with the expected text is the last call of test_reachability, which
\* returns True; True is returned in no other case; at most three requests
\* are made.
C20_ProbeStateMachine ==
    /\ \A i \in Probes : \E j \in 1..(i - 1) : trace[j].op = "sleep:300"
    /\ \A i \in Probes : ProbeSuccess(i) => (i = Len(trace) /\ reachable = "True")
    /\ reachable = "True" => ProbeSuccess(Len(trace))
    /\ Cardinality(Probes) <= 3
    /\ reachable # None => pc = "harvest"

\* success at the second request, after one failed request and one backoff
C20_Witness ==
    /\ reachable = "True"
    /\ ReachCalls = <<"sleep:300", "requests.get", "sleep:60", "requests.get">>
    /\ Got("requests.get", "500")

\* the send_command calls and the stop requests of this run
SendCalls == {i \in 1..Len(trace) : trace[i].op = "send_command"}
StopCalls == {i \in 1..Len(trace) : trace[i].op = "stop_instances"}

\* C21: a run calls send_command at most once, after the instance_running
\* waiter returned and directly after the idle sleep, and every stop
\* request of the run comes after a send_command that was accepted.
C21_SingleCommandBeforeStop ==
    /\ Cardinality(SendCalls) <= 1
    /\ \A i \in SendCalls :
          /\ \E j \in 1..(i - 1) : trace[j] = Ev("wait:instance_running", "ok")
          /\ \E j \in 1..(i - 1) : trace[j] = Ev("describe_instances", "ok")
          /\ i > 1 /\ trace[i - 1].op = "sleep:stop_after"
    /\ \A i \in StopCalls :
          \E j \in 1..(i - 1) : trace[j] = Ev("send_command", "ok")

\* the stop request made after the command wait failed
C21_Witness ==
    /\ Got("send_command", "ok")
    /\ Got("wait:command_executed", "WaiterError")
    /\ Got("stop_instances", "ok")
    /\ pc = "done"

\* C22: a step never removes a role nor changes the trust policy of a role
\* that exists; a read role that a step creates trusts the compute service
\* and the caller of that run, an upload role the compute service alone.
\* So the read role keeps trusting the caller it was created under through
\* every later run, whoever calls.
C22_TrustPolicyKept ==
    [][ /\ \A r \in DOMAIN cloud.roles :
              /\ r \in DOMAIN cloud'.roles
              /\ cloud'.roles[r].trust = cloud.roles[r].trust
        /\ \A r \in DOMAIN cloud'.roles \ DOMAIN cloud.roles :
              cloud'.roles[r].trust =
                 IF r = read_role_name(stage) THEN {Ec2Service, caller}
                 ELSE {Ec2Service} ]_vars

\* a later run under another caller found the read role, applied its
\* inline policy again and could not assume the role
C22_Witness ==
    /\ run > 1
    /\ Got("create_role:read", "EntityAlreadyExists")
    /\ Got("put_role_policy:read", "ok")
    /\ read_role_name(stage) \in DOMAIN cloud.roles
    /\ caller \notin cloud.roles[read_role_name(stage)].trust
    /\ Got("assume_role", "ClientError")
    /\ pc = "done"

\* the run_instances calls of this run
LaunchCalls == {i \in 1..Len(trace) : trace[i].op = "run_instances"}

\* C23: a run that reached the launch step has called run_instances exactly
\* once; instance_id is unset exactly as long as no run_instances of the
\* run succeeded.  The step in which instance_id is set adds one instance
\* to the account and instance_id names it; no other step adds an
\* instance; instance_id keeps its value to the end of the run; a step
\* never touches an instance other than the one instance_id names.
C23_OneFreshInstancePerRun ==
    /\ [](/\ Cardinality(LaunchCalls) <= 1
          /\ Has("sleep:10") => Cardinality(LaunchCalls) = 1
          /\ (instance_id = 0) <=> ~Got("run_instances", "ok")
          /\ instance_id \in 0..Len(cloud.instances))
    /\ [][ /\ (instance_id = 0 /\ instance_id' # 0) =>
                /\ Len(cloud'.instances) = Len(cloud.instances) + 1
                /\ instance_id' = Len(cloud'.instances)
           /\ ~(instance_id = 0 /\ instance_id' # 0) =>
                Len(cloud'.instances) = Len(cloud.instances)
           /\ (instance_id # 0 /\ run' = run) => instance_id' = instance_id
           /\ \A i \in 1..Len(cloud.instances) :
                 i # instance_id => cloud'.instances[i] = cloud.instances[i] ]_vars

\* the second run has launched its own instance beside the one the first
\* run launched and stopped
C23_Witness ==
    /\ run = 2
    /\ Len(cloud.instances) = 2
    /\ instance_id = 2
    /\ cloud.instances[1].state = "stopping"
    /\ cloud.instances[2].state = "running"

====
